---- MODULE Spec2Model ----
(***************************************************************************)
(* A model of handlers/handler.go: the four constructors MapHandler,       *)
(* YAMLHandler, JSONHandler and DBHandler, the closures they return, and   *)
(* the requests served by chains of those closures.                        *)
(*                                                                         *)
(* A Go map is a reference: the model keeps the maps in a heap and a       *)
(* closure holds the reference it captured.  A request is served one       *)
(* ServeHTTP call at a time, so that requests, constructor calls and the   *)
(* caller's own statements interleave.                                     *)
(***************************************************************************)
EXTENDS Integers, Sequences, FiniteSets, TLC

VARIABLES
    heap,        \* the Go maps allocated so far; a reference is an index, 0 is the nil map
    callerRefs,  \* the references the code that called MapHandler still holds
    handlers,    \* the closures the constructors returned; a handler is an index, 0 is the outermost fallback
    madeBy,      \* for each closure, the constructor that returned it
    ret,         \* what the last constructor call returned: (handler, error)
    logs,        \* the lines written with log.Println
    reqs,        \* the requests in flight, one per slot
    fatal,       \* the Go runtime stopped the process
    input        \* the documents handed to the constructors (SpecBuild)

vars == <<heap, callerRefs, handlers, madeBy, ret, logs, reqs, fatal, input>>

----------------------------------------------------------------------------
(* Bounds and value sets *)

MaxHandlers == 2
MaxDBChain == 1
MaxReqs == 1
MaxEntries == 2

StatusFound == 302
StatusMovedPermanently == 301
StatusOK == 200

\* the paths the documents name, the keys of the maps the chained handlers are built
\* over, and the paths requested
Paths == {"", "/a", "/b"}
Keys == {"/a"}
ReqPaths == {"", "/a"}
URLs == {"X", "Y"}
Methods == {"GET"}

nil == "nil"
ErrRecordNotFound == "record not found"
QueryErrs == {"no such table", "connection refused"}
MigrateErr == "migration failed"

----------------------------------------------------------------------------
(* Go maps *)

EmptyMap == [k \in {} |-> ""]

\* m[k] of a Go map: the zero value when the key is absent
Index(m, k) == IF k \in DOMAIN m THEN m[k] ELSE ""

\* m[k] = v
Store(m, k, v) == [x \in DOMAIN m \cup {k} |-> IF x = k THEN v ELSE m[x]]

Maps == UNION {[S -> URLs] : S \in SUBSET Keys}

\* the map behind a reference; reading the nil map finds nothing
Deref(h, ref) == IF ref = 0 THEN EmptyMap ELSE h[ref]

----------------------------------------------------------------------------
(* The documents: what the decoders make of the bytes *)

Fields == {"path", "url"}

\* a YAML mapping with any of the keys path and url
Entries ==
    {e \in UNION {[F -> Paths \cup URLs] : F \in SUBSET Fields} :
        /\ "path" \in DOMAIN e => e["path"] \in Paths
        /\ "url" \in DOMAIN e => e["url"] \in URLs}

\* seqs of length at most n
SeqsUpTo(S, n) == UNION {[1..k -> S] : k \in 0..n}

YAMLDocs ==
    {[kind |-> "seq", items |-> s] : s \in SeqsUpTo(Entries, MaxEntries)}
    \cup {[kind |-> "map", items |-> <<>>], [kind |-> "syntax", items |-> <<>>]}

\* a JSON member's value: a string, null, or a number
JSONValues == {[t |-> "str", s |-> u] : u \in URLs} \cup {[t |-> "null", s |-> ""], [t |-> "num", s |-> ""]}
Members == {[key |-> k, val |-> v] : k \in Paths, v \in JSONValues}

JSONDocs ==
    {[kind |-> "object", members |-> s] : s \in SeqsUpTo(Members, MaxEntries)}
    \cup {[kind |-> "array", members |-> <<>>], [kind |-> "null", members |-> <<>>],
          [kind |-> "syntax", members |-> <<>>]}

NoDoc == [kind |-> "none"]

\* yamlV2.Unmarshal(yaml, &dst) with dst a []map[string]string
yamlUnmarshal(yaml) ==
    CASE yaml.kind = "seq" -> [dst |-> yaml.items, err |-> nil]
      [] yaml.kind = "map" -> [dst |-> <<>>, err |-> "yaml: unmarshal errors"]
      [] OTHER -> [dst |-> <<>>, err |-> "yaml: syntax error"]

RECURSIVE jsonObject(_)
\* the members of a JSON object stored in order: a repeated key keeps its last value, null stores ""
jsonObject(members) ==
    IF members = <<>> THEN EmptyMap
    ELSE LET n == Len(members)
             m == members[n]
         IN Store(jsonObject(SubSeq(members, 1, n - 1)), m.key, m.val.s)

\* json.Unmarshal(jsonData, &dst) with dst a map[string]string; isNil: dst was left nil
jsonUnmarshal(jsonData) ==
    CASE jsonData.kind = "object" ->
            IF \E i \in 1..Len(jsonData.members) : jsonData.members[i].val.t = "num"
            THEN [dst |-> jsonObject(jsonData.members), isNil |-> FALSE,
                  err |-> "json: cannot unmarshal number into Go value of type string"]
            ELSE [dst |-> jsonObject(jsonData.members), isNil |-> FALSE, err |-> nil]
      [] jsonData.kind = "null" -> [dst |-> EmptyMap, isNil |-> TRUE, err |-> nil]
      [] jsonData.kind = "array" ->
            [dst |-> EmptyMap, isNil |-> TRUE,
             err |-> "json: cannot unmarshal array into Go value of type map[string]string"]
      [] OTHER -> [dst |-> EmptyMap, isNil |-> TRUE, err |-> "unexpected end of JSON input"]

----------------------------------------------------------------------------
(* parseYAML, parseJSON, buildMap *)

\* parseYAML dropping the decoder's error
parseYAML_swallow(yaml) ==
    [dst |-> yamlUnmarshal(yaml).dst, err |-> nil]

parseYAML(yaml) ==
    LET r == yamlUnmarshal(yaml)
    IN IF r.err # nil THEN [dst |-> <<>>, err |-> r.err]
       ELSE [dst |-> r.dst, err |-> nil]

parseJSON(jsonData) ==
    LET r == jsonUnmarshal(jsonData)
    IN IF r.err # nil THEN [dst |-> EmptyMap, isNil |-> TRUE, err |-> r.err]
       ELSE [dst |-> r.dst, isNil |-> r.isNil, err |-> nil]

RECURSIVE buildMap_firstWins(_)
\* buildMap keeping the first url of a repeated path
buildMap_firstWins(parsedYaml) ==
    IF parsedYaml = <<>> THEN EmptyMap
    ELSE LET n == Len(parsedYaml)
             entry == parsedYaml[n]
             mergedMap == buildMap_firstWins(SubSeq(parsedYaml, 1, n - 1))
             key == Index(entry, "path")
         IN IF key \in DOMAIN mergedMap THEN mergedMap
            ELSE Store(mergedMap, key, Index(entry, "url"))

RECURSIVE buildMap_skipFirst(_)
\* buildMap with a loop that starts at the second record
buildMap_skipFirst(parsedYaml) ==
    IF Len(parsedYaml) <= 1 THEN EmptyMap
    ELSE LET n == Len(parsedYaml)
             entry == parsedYaml[n]
             mergedMap == buildMap_skipFirst(SubSeq(parsedYaml, 1, n - 1))
         IN Store(mergedMap, Index(entry, "path"), Index(entry, "url"))

RECURSIVE buildMap(_)
buildMap(parsedYaml) ==
    IF parsedYaml = <<>> THEN EmptyMap
    ELSE LET n == Len(parsedYaml)
             entry == parsedYaml[n]
             mergedMap == buildMap(SubSeq(parsedYaml, 1, n - 1))
             key == Index(entry, "path")
         IN Store(mergedMap, key, Index(entry, "url"))

----------------------------------------------------------------------------
(* net/http: the ResponseWriter and the calls the closures make on it *)

NewWriter == [status |-> 0, location |-> "", body |-> "", n |-> 0]

\* http.Redirect(w, r, url, code): the Location header and the status code
Redirect(w, url, code) ==
    [w EXCEPT !.status = code, !.location = url, !.n = @ + 1]

\* fmt.Fprintf(w, ...): a body; the first write sends status 200 when none was set
Fprintf(w, text) ==
    [w EXCEPT !.status = IF @ = 0 THEN StatusOK ELSE @, !.body = text, !.n = @ + 1]

Requests == [Method : Methods, Path : ReqPaths]

\* a slot: the ServeHTTP calls made for the request so far (handler, request passed)
\* and the ResponseWriter they share
IdleReq == [st |-> "idle", calls |-> <<>>, w |-> NewWriter]

Last(s) == s[Len(s)]

\* the handler whose ServeHTTP is running for the request, and the request it was given
At(q) == Last(q.calls).h
CurReq(q) == Last(q.calls).r

\* handler.ServeHTTP(w, r): the call is made, the callee has not run yet
Call(q, h, r) == [q EXCEPT !.calls = Append(@, [h |-> h, r |-> r])]

----------------------------------------------------------------------------
(* gorm: the urlmap table behind a *gorm.DB *)

Rows == {[Shortpath |-> "", URL |-> "X"], [Shortpath |-> "/a", URL |-> "Y"]}

\* the tables: shortpath is unique
Tables == {t \in SUBSET Rows : \A a, b \in t : a.Shortpath = b.Shortpath => a = b}

DBs == {[exists |-> TRUE, rows |-> t] : t \in Tables} \cup {[exists |-> FALSE, rows |-> {}]}

ZeroRow == [Shortpath |-> "", URL |-> ""]

\* db.Where(urlMap): a struct condition keeps only the non-zero fields of the struct
Where(db, urlMap) ==
    [db EXCEPT !.rows = {row \in @ :
        /\ urlMap.Shortpath # "" => row.Shortpath = urlMap.Shortpath
        /\ urlMap.URL # "" => row.URL = urlMap.URL}]

\* .First(&dst).Error: the outcomes the query can have.  The table has no primary
\* key, so the query has no ORDER BY and the database picks the row.
First(scope) ==
    (IF ~scope.exists THEN {[dst |-> ZeroRow, err |-> "no such table"]}
     ELSE IF scope.rows = {} THEN {[dst |-> ZeroRow, err |-> ErrRecordNotFound]}
     ELSE {[dst |-> row, err |-> nil] : row \in scope.rows})
    \cup {[dst |-> ZeroRow, err |-> "connection refused"]}

\* db.AutoMigrate(&urlmap{}): the outcomes; a success leaves the table in place
AutoMigrate(db) ==
    {[db |-> [db EXCEPT !.exists = TRUE], err |-> nil], [db |-> db, err |-> MigrateErr]}

----------------------------------------------------------------------------
(* The constructors *)

NoHandler == <<>>
NoRet == [fn |-> "", handler |-> NoHandler, err |-> nil]

\* the closure MapHandler returns: it captures the map reference and the fallback
MapHandler(pathsToUrls, fallback) ==
    [fn |-> "MapHandler", pathsToUrls |-> pathsToUrls, fallback |-> fallback,
     db |-> [exists |-> FALSE, rows |-> {}]]

\* the closure DBHandler returns: it captures db and the fallback
DBClosure(db, fallback) ==
    [fn |-> "DBHandler", pathsToUrls |-> 0, fallback |-> fallback, db |-> db]

\* the caller builds a map, keeps it, and calls MapHandler(m, fallback)
CallMapHandler(m, fallback) ==
    /\ heap' = Append(heap, m)
    /\ callerRefs' = callerRefs \cup {Len(heap) + 1}
    /\ handlers' = Append(handlers, MapHandler(Len(heap) + 1, fallback))
    /\ madeBy' = Append(madeBy, "MapHandler")
    /\ ret' = [fn |-> "MapHandler", handler |-> <<Len(handlers) + 1>>, err |-> nil]
    /\ UNCHANGED <<logs, reqs, fatal, input>>

YAMLHandler(yaml, fallback) ==
    LET parsed == parseYAML(yaml)
    IN IF parsed.err # nil
       THEN /\ ret' = [fn |-> "YAMLHandler", handler |-> NoHandler, err |-> parsed.err]
            /\ UNCHANGED <<heap, callerRefs, handlers, madeBy, logs, reqs, fatal, input>>
       ELSE /\ heap' = Append(heap, buildMap(parsed.dst))
            /\ handlers' = Append(handlers, MapHandler(Len(heap) + 1, fallback))
            /\ madeBy' = Append(madeBy, "YAMLHandler")
            /\ ret' = [fn |-> "YAMLHandler", handler |-> <<Len(handlers) + 1>>, err |-> nil]
            /\ UNCHANGED <<callerRefs, logs, reqs, fatal, input>>

JSONHandler(jsonData, fallback) ==
    LET parsed == parseJSON(jsonData)
    IN IF parsed.err # nil
       THEN /\ ret' = [fn |-> "JSONHandler", handler |-> NoHandler, err |-> parsed.err]
            /\ UNCHANGED <<heap, callerRefs, handlers, madeBy, logs, reqs, fatal, input>>
       ELSE /\ heap' = IF parsed.isNil THEN heap ELSE Append(heap, parsed.dst)
            /\ handlers' = Append(handlers,
                    MapHandler(IF parsed.isNil THEN 0 ELSE Len(heap) + 1, fallback))
            /\ madeBy' = Append(madeBy, "JSONHandler")
            /\ ret' = [fn |-> "JSONHandler", handler |-> <<Len(handlers) + 1>>, err |-> nil]
            /\ UNCHANGED <<callerRefs, logs, reqs, fatal, input>>

\* DBHandler returning the migration's error instead of a handler
DBHandler_failOnMigrate(db, fallback) ==
    \E mig \in AutoMigrate(db) :
        IF mig.err # nil
        THEN /\ logs' = Append(logs, "Gorm error: " \o mig.err)
             /\ ret' = [fn |-> "DBHandler", handler |-> NoHandler, err |-> mig.err]
             /\ UNCHANGED <<heap, callerRefs, handlers, madeBy, reqs, fatal, input>>
        ELSE /\ handlers' = Append(handlers, DBClosure(mig.db, fallback))
             /\ madeBy' = Append(madeBy, "DBHandler")
             /\ ret' = [fn |-> "DBHandler", handler |-> <<Len(handlers) + 1>>, err |-> nil]
             /\ UNCHANGED <<heap, callerRefs, logs, reqs, fatal, input>>

DBHandler(db, fallback) ==
    \E mig \in AutoMigrate(db) :
        /\ logs' = IF mig.err # nil THEN Append(logs, "Gorm error: " \o mig.err) ELSE logs
        /\ handlers' = Append(handlers, DBClosure(mig.db, fallback))
        /\ madeBy' = Append(madeBy, "DBHandler")
        /\ ret' = [fn |-> "DBHandler", handler |-> <<Len(handlers) + 1>>, err |-> nil]
        /\ UNCHANGED <<heap, callerRefs, reqs, fatal, input>>

----------------------------------------------------------------------------
(* The closures: one ServeHTTP call of the request in slot i *)

Running(i) == ~fatal /\ reqs[i].st = "run"

\* path, ok := pathsToUrls[r.URL.Path] in closure c, with the heap as it is
Lookup(hp, c, p) ==
    LET m == Deref(hp, c.pathsToUrls)
    IN [path |-> Index(m, p), ok |-> p \in DOMAIN m]

\* the closure with the status DBHandler uses
MapHandlerFunc_301(i) ==
    LET q == reqs[i]
        c == handlers[At(q)]
        r == CurReq(q)
        found == Lookup(heap, c, r.Path)
    IN /\ reqs' = [reqs EXCEPT ![i] =
                IF found.ok
                THEN [q EXCEPT !.w = Redirect(q.w, found.path, StatusMovedPermanently), !.st = "done"]
                ELSE Call(q, c.fallback, r)]
       /\ UNCHANGED <<heap, callerRefs, handlers, madeBy, ret, logs, fatal, input>>

\* the closure without its else: the fallback is called after the redirect too
MapHandlerFunc_noElse(i) ==
    LET q == reqs[i]
        c == handlers[At(q)]
        r == CurReq(q)
        found == Lookup(heap, c, r.Path)
    IN /\ reqs' = [reqs EXCEPT ![i] =
                IF found.ok
                THEN Call([q EXCEPT !.w = Redirect(q.w, found.path, StatusFound)], c.fallback, r)
                ELSE Call(q, c.fallback, r)]
       /\ UNCHANGED <<heap, callerRefs, handlers, madeBy, ret, logs, fatal, input>>

\* the closure with a lookup that stores the zero value under a missing key
MapHandlerFunc_insertOnMiss(i) ==
    LET q == reqs[i]
        c == handlers[At(q)]
        r == CurReq(q)
        found == Lookup(heap, c, r.Path)
    IN /\ reqs' = [reqs EXCEPT ![i] =
                IF found.ok
                THEN [q EXCEPT !.w = Redirect(q.w, found.path, StatusFound), !.st = "done"]
                ELSE Call(q, c.fallback, r)]
       /\ heap' = IF found.ok \/ c.pathsToUrls = 0 THEN heap
                  ELSE [heap EXCEPT ![c.pathsToUrls] = Store(@, r.Path, "")]
       /\ UNCHANGED <<callerRefs, handlers, madeBy, ret, logs, fatal, input>>

\* the closure MapHandler returned
MapHandlerFunc(i) ==
    LET q == reqs[i]
        c == handlers[At(q)]
        r == CurReq(q)
        found == Lookup(heap, c, r.Path)
    IN /\ reqs' = [reqs EXCEPT ![i] =
                IF found.ok
                THEN [q EXCEPT !.w = Redirect(q.w, found.path, StatusFound), !.st = "done"]
                ELSE Call(q, c.fallback, r)]
       /\ UNCHANGED <<heap, callerRefs, handlers, madeBy, ret, logs, fatal, input>>

\* the closure calling the fallback on every query error
DBHandlerFunc_fallbackOnError(i) ==
    LET q == reqs[i]
        c == handlers[At(q)]
        r == CurReq(q)
        urlMap == [Shortpath |-> r.Path, URL |-> ""]
    IN \E res \in First(Where(c.db, urlMap)) :
        /\ reqs' = [reqs EXCEPT ![i] =
                IF res.err # nil
                THEN Call(q, c.fallback, r)
                ELSE [q EXCEPT !.w = Redirect(q.w, res.dst.URL, StatusMovedPermanently),
                               !.st = "done"]]
        /\ UNCHANGED <<heap, callerRefs, handlers, madeBy, ret, logs, fatal, input>>

\* the closure answering a missing record itself
DBHandlerFunc_ownNotFound(i) ==
    LET q == reqs[i]
        c == handlers[At(q)]
        r == CurReq(q)
        urlMap == [Shortpath |-> r.Path, URL |-> ""]
    IN \E res \in First(Where(c.db, urlMap)) :
        /\ reqs' = [reqs EXCEPT ![i] =
                IF res.err # nil
                THEN IF res.err = ErrRecordNotFound
                     THEN [q EXCEPT !.w = Fprintf(q.w, "not found"), !.st = "done"]
                     ELSE [q EXCEPT !.w = Fprintf(q.w, "Unexpected error: " \o res.err),
                                    !.st = "done"]
                ELSE [q EXCEPT !.w = Redirect(q.w, res.dst.URL, StatusMovedPermanently),
                               !.st = "done"]]
        /\ UNCHANGED <<heap, callerRefs, handlers, madeBy, ret, logs, fatal, input>>

\* the closure DBHandler returned
DBHandlerFunc(i) ==
    LET q == reqs[i]
        c == handlers[At(q)]
        r == CurReq(q)
        urlMap == [Shortpath |-> r.Path, URL |-> ""]
    IN \E res \in First(Where(c.db, urlMap)) :
        /\ reqs' = [reqs EXCEPT ![i] =
                IF res.err # nil
                THEN IF res.err = ErrRecordNotFound
                     THEN Call(q, c.fallback, r)
                     ELSE [q EXCEPT !.w = Fprintf(q.w, "Unexpected error: " \o res.err),
                                    !.st = "done"]
                ELSE [q EXCEPT !.w = Redirect(q.w, res.dst.URL, StatusMovedPermanently),
                               !.st = "done"]]
        /\ UNCHANGED <<heap, callerRefs, handlers, madeBy, ret, logs, fatal, input>>

\* the outermost fallback, a handler of the caller's: it answers the request itself
FallbackServeHTTP(i) ==
    /\ Running(i) /\ At(reqs[i]) = 0
    /\ reqs' = [reqs EXCEPT ![i] = [reqs[i] EXCEPT !.w = Fprintf(reqs[i].w, "fallback"), !.st = "done"]]
    /\ UNCHANGED <<heap, callerRefs, handlers, madeBy, ret, logs, fatal, input>>

ServeMap(i) ==
    /\ Running(i) /\ At(reqs[i]) # 0 /\ handlers[At(reqs[i])].fn = "MapHandler"
    /\ MapHandlerFunc(i)

ServeDB(i) ==
    /\ Running(i) /\ At(reqs[i]) # 0 /\ handlers[At(reqs[i])].fn = "DBHandler"
    /\ DBHandlerFunc(i)

\* the server hands request r to handler h in the lowest free slot
Arrive(h, r) ==
    /\ ~fatal
    /\ \E i \in 1..MaxReqs :
        /\ reqs[i].st = "idle"
        /\ \A j \in 1..(i - 1) : reqs[j].st # "idle"
        /\ reqs' = [reqs EXCEPT ![i] = [st |-> "run", calls |-> <<[h |-> h, r |-> r]>>, w |-> NewWriter]]
    /\ UNCHANGED <<heap, callerRefs, handlers, madeBy, ret, logs, fatal, input>>

\* the response was sent and the connection is done
Complete(i) ==
    /\ ~fatal /\ reqs[i].st = "done"
    /\ reqs' = [reqs EXCEPT ![i] = IdleReq]
    /\ UNCHANGED <<heap, callerRefs, handlers, madeBy, ret, logs, fatal, input>>

----------------------------------------------------------------------------
(* The code that called MapHandler and kept the map *)

\* m[k] = v on a map that was passed to MapHandler
CallerWrite(ref, k, v) ==
    /\ ~fatal /\ ref \in callerRefs
    /\ heap' = [heap EXCEPT ![ref] = Store(@, k, v)]
    /\ UNCHANGED <<callerRefs, handlers, madeBy, ret, logs, reqs, fatal, input>>

\* the same write, unsynchronised, while the closure in slot i reads the map: besides
\* reading the map as it was before or after the write, the Go runtime may stop the
\* process ("fatal error: concurrent map read and map write")
ConcurrentMapReadAndWrite(i, ref) ==
    /\ Running(i) /\ At(reqs[i]) # 0 /\ ref \in callerRefs
    /\ handlers[At(reqs[i])].fn = "MapHandler" /\ handlers[At(reqs[i])].pathsToUrls = ref
    /\ fatal' = TRUE
    /\ UNCHANGED <<heap, callerRefs, handlers, madeBy, ret, logs, reqs, input>>

----------------------------------------------------------------------------
(* The three specifications *)

Top == Len(handlers)
CanBuild(n) == ~fatal /\ Len(handlers) < n
Slots == 1..MaxReqs

\* the documents that decode to records over Keys
GoodYAML ==
    {d \in YAMLDocs : d.kind = "seq" /\ \A i \in 1..Len(d.items) :
        DOMAIN d.items[i] = Fields /\ d.items[i]["path"] \in Keys}
GoodJSON ==
    {d \in JSONDocs : d.kind \in {"object", "null"} /\ \A i \in 1..Len(d.members) :
        d.members[i].val.t = "str" /\ d.members[i].key \in Keys}

NoInput == [yaml |-> NoDoc, json |-> NoDoc]

Init ==
    /\ heap = <<>>
    /\ callerRefs = {}
    /\ handlers = <<>>
    /\ madeBy = <<>>
    /\ ret = NoRet
    /\ logs = <<>>
    /\ reqs = [i \in Slots |-> IdleReq]
    /\ fatal = FALSE
    /\ input = NoInput

\* Spec: the map-backed handlers chained as each other's fallback, the requests they
\* serve, and the caller who kept the map it passed to MapHandler
Next ==
    \/ \E m \in Maps : CanBuild(MaxHandlers) /\ CallMapHandler(m, Top)
    \/ \E yaml \in GoodYAML : CanBuild(MaxHandlers) /\ YAMLHandler(yaml, Top)
    \/ \E jsonData \in GoodJSON : CanBuild(MaxHandlers) /\ JSONHandler(jsonData, Top)
    \/ \E r \in Requests : Top > 0 /\ Arrive(Top, r)
    \/ \E i \in Slots : ServeMap(i)
    \/ \E i \in Slots : FallbackServeHTTP(i)
    \/ \E i \in Slots : Complete(i)
    \/ \E ref \in callerRefs, k \in Keys, v \in URLs : CallerWrite(ref, k, v)
    \/ \E i \in Slots, ref \in callerRefs : ConcurrentMapReadAndWrite(i, ref)

Spec == Init /\ [][Next]_vars

\* SpecDB: handlers of all four constructors, the database-backed one included
NextDB ==
    \/ \E m \in Maps : CanBuild(MaxDBChain) /\ CallMapHandler(m, Top)
    \/ \E yaml \in GoodYAML : CanBuild(MaxDBChain) /\ YAMLHandler(yaml, Top)
    \/ \E jsonData \in GoodJSON : CanBuild(MaxDBChain) /\ JSONHandler(jsonData, Top)
    \/ \E db \in DBs : CanBuild(MaxDBChain) /\ DBHandler(db, Top)
    \/ \E r \in Requests : Top > 0 /\ Arrive(Top, r)
    \/ \E i \in Slots : ServeMap(i)
    \/ \E i \in Slots : ServeDB(i)
    \/ \E i \in Slots : FallbackServeHTTP(i)
    \/ \E i \in Slots : Complete(i)

SpecDB == Init /\ [][NextDB]_vars

\* SpecBuild: YAMLHandler and JSONHandler applied to the documents of the input

Range(s) == {s[i] : i \in 1..Len(s)}

\* the sequences without a repeated path (key)
UniqueYAML == {s \in SeqsUpTo({e \in Entries : DOMAIN e = Fields}, MaxEntries) :
                \A i, j \in 1..Len(s) : s[i]["path"] = s[j]["path"] => i = j}
UniqueJSON == {s \in SeqsUpTo({m \in Members : m.val.t = "str"}, MaxEntries) :
                \A i, j \in 1..Len(s) : s[i].key = s[j].key => i = j}

\* the YAML records and the JSON members list the same (path, url) pairs
SamePairs(items, members) ==
    {<<items[i]["path"], items[i]["url"]>> : i \in 1..Len(items)}
        = {<<members[i].key, members[i].val.s>> : i \in 1..Len(members)}

Inputs ==
    {[yaml |-> d, json |-> NoDoc] : d \in YAMLDocs}
    \cup {[yaml |-> NoDoc, json |-> d] : d \in JSONDocs}
    \cup {[yaml |-> [kind |-> "seq", items |-> pair[1]], json |-> [kind |-> "object", members |-> pair[2]]] :
            pair \in {pr \in UniqueYAML \X UniqueJSON : SamePairs(pr[1], pr[2])}}

InitBuild ==
    /\ heap = <<>>
    /\ callerRefs = {}
    /\ handlers = <<>>
    /\ madeBy = <<>>
    /\ ret = NoRet
    /\ logs = <<>>
    /\ reqs = [i \in Slots |-> IdleReq]
    /\ fatal = FALSE
    /\ input \in Inputs

BuildYAML ==
    /\ input.yaml.kind # "none" /\ "YAMLHandler" \notin Range(madeBy)
    /\ YAMLHandler(input.yaml, 0)

BuildJSON ==
    /\ input.json.kind # "none" /\ "JSONHandler" \notin Range(madeBy)
    /\ JSONHandler(input.json, 0)

NextBuild == BuildYAML \/ BuildJSON

SpecBuild == InitBuild /\ [][NextBuild]_vars

----------------------------------------------------------------------------
(* The claims about the constructors, under SpecBuild *)

\* the handler a constructor returned, 0 when it returned none
BuiltBy(fn) == IF fn \in Range(madeBy) THEN CHOOSE h \in 1..Len(handlers) : madeBy[h] = fn ELSE 0

\* a record's fields as the decoder leaves them: an absent field reads as ""
PathOf(e) == IF "path" \in DOMAIN e THEN e["path"] ELSE ""
UrlOf(e) == IF "url" \in DOMAIN e THEN e["url"] ELSE ""

\* the last record of items whose path is p
LastWithPath(items, p) ==
    CHOOSE i \in 1..Len(items) :
        PathOf(items[i]) = p /\ \A j \in (i + 1)..Len(items) : PathOf(items[j]) # p

\* C3: the mapping YAMLHandler builds from the decoded records has exactly the
\* records' paths as its keys, and maps each path to the url of the last record
\* with that path
C3_LastWriteWins ==
    BuiltBy("YAMLHandler") # 0 =>
        LET m == Deref(heap, handlers[BuiltBy("YAMLHandler")].pathsToUrls)
            items == input.yaml.items
        IN /\ DOMAIN m = {PathOf(items[i]) : i \in 1..Len(items)}
           /\ \A p \in DOMAIN m : m[p] = UrlOf(items[LastWithPath(items, p)])

\* C3 witness: a handler built from two records with the same path and different urls
C3_Witness ==
    /\ BuiltBy("YAMLHandler") # 0
    /\ Len(input.yaml.items) = 2
    /\ PathOf(input.yaml.items[1]) = PathOf(input.yaml.items[2])
    /\ UrlOf(input.yaml.items[1]) # UrlOf(input.yaml.items[2])

\* what the decoder said of the document the last constructor call was given
DecodeErr ==
    IF ret.fn = "YAMLHandler" THEN yamlUnmarshal(input.yaml).err
    ELSE jsonUnmarshal(input.json).err

\* C4: YAMLHandler and JSONHandler return a handler or an error, never both and
\* never neither: the decoder's error as it is with no handler (and no closure over
\* the fallback is made), or a MapHandler closure over the fallback with a nil error
C4_HandlerXorError ==
    ret.fn \in {"YAMLHandler", "JSONHandler"} =>
        IF DecodeErr # nil
        THEN /\ ret.err = DecodeErr
             /\ ret.handler = NoHandler
             /\ BuiltBy(ret.fn) = 0
        ELSE /\ ret.err = nil
             /\ ret.handler = <<BuiltBy(ret.fn)>>
             /\ BuiltBy(ret.fn) # 0
             /\ handlers[BuiltBy(ret.fn)].fn = "MapHandler"
             /\ handlers[BuiltBy(ret.fn)].fallback = 0

\* C4 witness: YAMLHandler returned the decoder's error and no handler
C4_Witness ==
    /\ ret.fn = "YAMLHandler"
    /\ ret.err = "yaml: unmarshal errors"
    /\ ret.handler = NoHandler

\* the input holds a JSON object and a YAML sequence that list the same mapping,
\* no path twice
SameMapping ==
    /\ input.yaml.kind = "seq" /\ input.json.kind = "object"
    /\ input.yaml.items \in UniqueYAML /\ input.json.members \in UniqueJSON
    /\ SamePairs(input.yaml.items, input.json.members)

\* C9: the handlers JSONHandler and YAMLHandler build from the same mapping and the
\* same fallback decide every request path alike: the same lookup result (found or
\* not, and the url), hence the same redirect or the same call of the fallback
C9_JSONHandlerEquivYAMLHandler ==
    (SameMapping /\ BuiltBy("YAMLHandler") # 0 /\ BuiltBy("JSONHandler") # 0) =>
        LET hy == handlers[BuiltBy("YAMLHandler")]
            hj == handlers[BuiltBy("JSONHandler")]
        IN /\ hy.fn = hj.fn /\ hy.fallback = hj.fallback
           /\ \A p \in Paths \cup ReqPaths : Lookup(heap, hy, p) = Lookup(heap, hj, p)

\* C9 witness: both handlers built from two entries listed in opposite orders
C9_Witness ==
    /\ SameMapping /\ BuiltBy("YAMLHandler") # 0 /\ BuiltBy("JSONHandler") # 0
    /\ Len(input.yaml.items) = 2
    /\ input.yaml.items[1]["path"] = input.json.members[2].key

----------------------------------------------------------------------------
(* The claims about the map-backed closures, under Spec *)

\* the requests in flight or answered
Active == {i \in Slots : reqs[i].st # "idle"}

\* the closure of handler h ran for request q: it was called, and is not the call
\* still waiting to run
Ran(q, k) == k < Len(q.calls) \/ q.st = "done"

\* a step in which the closure of a constructed handler runs for the request in slot i
ClosureStep(i) == reqs[i].st = "run" /\ At(reqs[i]) # 0 /\ reqs'[i] # reqs[i]

\* C1: when the closure MapHandler returned runs for a request with path p, then
\* with M the map as it is at the lookup: if p is a key of M it answers with status
\* 302 and Location M[p] and calls nothing; otherwise it writes nothing and calls
\* the fallback once, with the request it was given
C1_MapHandler ==
    [][\A i \in Slots :
        (ClosureStep(i) /\ handlers[At(reqs[i])].fn = "MapHandler") =>
            LET q == reqs[i]
                c == handlers[At(q)]
                M == Deref(heap, c.pathsToUrls)
                p == CurReq(q).Path
            IN IF p \in DOMAIN M
               THEN /\ reqs'[i].st = "done"
                    /\ reqs'[i].calls = q.calls
                    /\ reqs'[i].w = [status |-> StatusFound, location |-> M[p],
                                     body |-> "", n |-> 1]
               ELSE /\ reqs'[i].st = "run"
                    /\ reqs'[i].w = q.w /\ q.w = NewWriter
                    /\ reqs'[i].calls = Append(q.calls, [h |-> c.fallback, r |-> CurReq(q)])
      ]_vars

\* C1 witness: a request answered by a MapHandler closure with a 302 to the mapped url
C1_Witness ==
    \E i \in Active :
        /\ reqs[i].st = "done" /\ At(reqs[i]) # 0
        /\ CurReq(reqs[i]).Path = "/a"
        /\ reqs[i].w.status = StatusFound /\ reqs[i].w.location = "Y"

\* the map of handler h is held by the closure alone
Private(h) == handlers[h].pathsToUrls \notin callerRefs

C10_ChainPrecedence ==
    /\ [](\A i \in Active :
            LET q == reqs[i]
                p == q.calls[1].r.Path
            IN /\ \A k \in 1..(Len(q.calls) - 1) :
                    /\ q.calls[k].h # 0
                    /\ q.calls[k + 1].h = handlers[q.calls[k].h].fallback
                    /\ q.calls[k + 1].r = q.calls[k].r
               /\ \A j, k \in 1..Len(q.calls) : q.calls[j].h = q.calls[k].h => j = k
               /\ q.w.n = IF q.st = "done" THEN 1 ELSE 0
               /\ \A k \in 1..Len(q.calls) :
                    (q.calls[k].h # 0 /\ Private(q.calls[k].h) /\ Ran(q, k)) =>
                        LET found == Lookup(heap, handlers[q.calls[k].h], p)
                        IN IF k < Len(q.calls) THEN ~found.ok
                           ELSE /\ found.ok
                                /\ q.w.status = StatusFound /\ q.w.location = found.path
               /\ (q.st = "done" /\ At(q) = 0) => q.w.body = "fallback")
    /\ [][\A i \in Slots : ClosureStep(i) =>
            (reqs'[i].st = "done"
                <=> Lookup(heap, handlers[At(reqs[i])], CurReq(reqs[i]).Path).ok)
         ]_vars

\* C10 witness: H1 over M1 missed, its fallback H2 over M2 answered with M2[p]
C10_Witness ==
    \E i \in Active :
        /\ reqs[i].st = "done" /\ Len(reqs[i].calls) = 2 /\ At(reqs[i]) # 0
        /\ reqs[i].w.status = StatusFound /\ reqs[i].w.location = "X"

----------------------------------------------------------------------------
(* The claims about the database-backed closure, under SpecDB *)

\* the calls of request q that went to a closure DBHandler (MapHandler) returned
\* and have run
DBCalls(q) ==
    {k \in 1..Len(q.calls) :
        q.calls[k].h # 0 /\ handlers[q.calls[k].h].fn = "DBHandler" /\ Ran(q, k)}
MapCalls(q) ==
    {k \in 1..Len(q.calls) :
        q.calls[k].h # 0 /\ handlers[q.calls[k].h].fn = "MapHandler" /\ Ran(q, k)}

\* the rows of the table whose shortpath is p
Exact(db, p) == {row \in db.rows : row.Shortpath = p}

\* the response is the text the closure writes on a query error: a body, status 200,
\* no Location
Diagnostic(w) ==
    /\ w.status = StatusOK /\ w.location = "" /\ w.n = 1
    /\ w.body \in {"Unexpected error: " \o e : e \in QueryErrs}

\* the response is a redirect with this status to this url, and nothing else
RedirectTo(w, code, url) == w = [status |-> code, location |-> url, body |-> "", n |-> 1]

\* C2 as claimed: for every table and request path p, the empty path included, a
\* closure of DBHandler whose query did not fail has answered with a 301 to the url
\* of the row whose shortpath is p when there is one, and has called the fallback
\* when there is none
C2_ExactShortpath ==
    \A i \in Active : \A k \in DBCalls(reqs[i]) :
        LET q == reqs[i]
            db == handlers[q.calls[k].h].db
            p == q.calls[k].r.Path
            failed == k = Len(q.calls) /\ Diagnostic(q.w)
        IN ~failed =>
            IF Exact(db, p) # {}
            THEN /\ k = Len(q.calls)
                 /\ \E row \in Exact(db, p) : RedirectTo(q.w, StatusMovedPermanently, row.URL)
            ELSE k < Len(q.calls)

\* the closure of handler h finds nothing for path p
NoMatch(h, p) ==
    IF handlers[h].fn = "MapHandler" THEN ~Lookup(heap, handlers[h], p).ok
    ELSE Exact(handlers[h].db, p) = {}

\* C5 as claimed: every answered request was answered by the outermost fallback or
\* by a redirect, and a closure that finds no match for the path has passed the
\* request to its fallback
C5_RedirectOrDelegate ==
    \A i \in Active :
        LET q == reqs[i]
        IN /\ q.st = "done" =>
                \/ At(q) = 0
                \/ /\ q.w.status \in {StatusFound, StatusMovedPermanently}
                   /\ q.w.body = ""
           /\ \A k \in DBCalls(q) \cup MapCalls(q) :
                NoMatch(q.calls[k].h, q.calls[k].r.Path) => k < Len(q.calls)

\* C5 amended: a closure of MapHandler, YAMLHandler or JSONHandler has answered with
\* a 302 to M[p] when p is a key of its map and has passed the request to its
\* fallback when it is not; a closure of DBHandler has answered with a 301 to the
\* url of a row the query returned, or with the text "Unexpected error: <error>" it
\* writes itself, or has passed the request to its fallback, and that only when the
\* query finds no record; the outermost fallback answers what is passed to it
C5_RedirectDelegateOrDiagnostic ==
    \A i \in Active :
        LET q == reqs[i]
        IN /\ \A k \in MapCalls(q) :
                LET found == Lookup(heap, handlers[q.calls[k].h], q.calls[k].r.Path)
                IN IF found.ok
                   THEN k = Len(q.calls) /\ RedirectTo(q.w, StatusFound, found.path)
                   ELSE k < Len(q.calls)
           /\ \A k \in DBCalls(q) :
                LET db == handlers[q.calls[k].h].db
                    scope == Where(db, [Shortpath |-> q.calls[k].r.Path, URL |-> ""])
                IN IF k < Len(q.calls)
                   THEN db.exists /\ scope.rows = {}
                   ELSE \/ \E row \in scope.rows :
                              db.exists /\ RedirectTo(q.w, StatusMovedPermanently, row.URL)
                        \/ Diagnostic(q.w)
           /\ (q.st = "done" /\ At(q) = 0) => q.w = Fprintf(NewWriter, "fallback")
           /\ q.st = "run" => q.w = NewWriter

\* C5 witness: a closure of DBHandler answered a request with the text of a query error
C5_Witness ==
    \E i \in Active :
        /\ reqs[i].st = "done" /\ DBCalls(reqs[i]) # {}
        /\ reqs[i].w.body = "Unexpected error: connection refused"

\* C6: a closure of DBHandler that did not redirect and did not call its fallback
\* has written "Unexpected error: <error>" with status 200 and no Location; over a
\* table that does not exist, where every query fails, it neither redirects nor
\* calls the fallback; and it has called its fallback only where the query finds
\* no record in an existing table
C6_QueryErrorBody ==
    \A i \in Active : \A k \in DBCalls(reqs[i]) :
        LET q == reqs[i]
            db == handlers[q.calls[k].h].db
            scope == Where(db, [Shortpath |-> q.calls[k].r.Path, URL |-> ""])
        IN /\ (k = Len(q.calls) /\ q.w.status # StatusMovedPermanently) =>
                /\ q.w.status = StatusOK /\ q.w.location = "" /\ q.w.n = 1
                /\ \E e \in QueryErrs : q.w.body = "Unexpected error: " \o e
           /\ ~db.exists => (k = Len(q.calls) /\ Diagnostic(q.w))
           /\ k < Len(q.calls) => (db.exists /\ scope.rows = {})

\* C6 witness: the query failed on a missing table and the closure wrote the error
C6_Witness ==
    \E i \in Active :
        /\ reqs[i].st = "done" /\ DBCalls(reqs[i]) = {1} /\ Len(reqs[i].calls) = 1
        /\ reqs[i].w.status = StatusOK
        /\ reqs[i].w.body = "Unexpected error: no such table"

\* the handlers DBHandler returned
DBHandlers == {h \in 1..Len(handlers) : handlers[h].fn = "DBHandler"}

\* C7: DBHandler always returns a closure and a nil error; a failed migration leaves
\* one log line and still a closure; and every request a closure of DBHandler ran
\* for was redirected with a 301, passed to the fallback, or answered with the
\* query-error text
C7_ConstructionNeverFails ==
    /\ ret.fn = "DBHandler" =>
            /\ ret.err = nil /\ ret.handler = <<Top>>
            /\ handlers[Top].fn = "DBHandler"
    /\ \A j \in 1..Len(logs) : logs[j] = "Gorm error: " \o MigrateErr
    /\ Len(logs) <= Cardinality(DBHandlers)
    /\ \A h \in DBHandlers : ~handlers[h].db.exists => logs # <<>>
    /\ \A i \in Active : \A k \in DBCalls(reqs[i]) :
            \/ k < Len(reqs[i].calls)
            \/ reqs[i].w.status = StatusMovedPermanently /\ reqs[i].w.n = 1
            \/ Diagnostic(reqs[i].w)

\* C7 witness: the migration failed, was logged, and the closure returned all the
\* same has redirected a request
C7_Witness ==
    /\ Len(logs) = Cardinality(DBHandlers) /\ logs # <<>>
    /\ \E i \in Active :
        /\ reqs[i].st = "done" /\ DBCalls(reqs[i]) # {}
        /\ reqs[i].w.status = StatusMovedPermanently

====
